---- MODULE Spec2Model ----
(***************************************************************************)
(* A model of cmd/keybaseca/keybaseca.go: the `service` subcommand with    *)
(* its client-config publication and signal-driven cleanup, the            *)
(* `wipe-all-configs` bounded scanner, and the `generate`, `backup` and    *)
(* `sign` subcommands.  Every KBFS call, file-system call and channel operation   *)
(* is one atomic step; the goroutines interleave between them.             *)
(***************************************************************************)
EXTENDS Integers, Sequences, FiniteSets, TLC

(***************************************************************************)
(* Bounds of the model.                                                    *)
(***************************************************************************)
MaxTeams == 2          \* longest list of authorized teams in a configuration
MaxSignals == 2        \* termination signals delivered to one process
MaxWipeTeams == 3      \* most teams KBFSList returns to wipe-all-configs
MaxLine == 4           \* longest line typed at the backup prompt
MaxKeyIDs == 2         \* distinct UUIDs uuid.NewRandom can return

\* Team names, in a fixed order; the first three are "alpha", "beta", "gamma".
TeamOrder == <<"alpha", "beta", "gamma", "delta", "epsilon">>
TeamNames == {"alpha", "beta", "gamma"}

NoFile == [absent |-> TRUE]

VARIABLES
    \* ---- service subcommand ----
    conf,         \* the environment's configuration (config.EnvConfig)
    confValid,    \* whether config.ValidateConfig accepts it
    store,        \* Team Directory Store: team -> content of
                  \*   /keybase/team/<team>/<ConfigFilename>, or NoFile
    pc,           \* position of the main goroutine
    idx,          \* loop index of the main goroutine's range loop
    err,          \* the error the action returns ("nil" when none)
    notify,       \* signal.Notify has registered signalChan
    hpc,          \* position of the signal goroutine
    hidx,         \* loop index of the signal goroutine's deleteClientConfig
    exit,         \* "running", or how the process ended
    \* ---- observations of the run (written, never read by the program) ----
    signals,      \* number of signals delivered
    wrote,        \* team -> number of KBFSWrite calls that succeeded on it
    writeTried,   \* team -> number of KBFSWrite calls issued on it
    delTried,     \* team -> number of KBFSDelete calls issued on it
    delFailed,    \* some KBFSDelete returned an error
    delFault,     \* some KBFSDelete failed on a file that was there
    sigAfterWrite,\* a signal arrived after a first KBFSWrite had succeeded
    botReturned,  \* "no", or how bot.StartBot returned: "nil", "err"
    mainRetract   \* serviceAction has called deleteClientConfig

    \* ---- wipe-all-configs ----
VARIABLES
    wteams,       \* the teams KBFSList returned
    kbfs,         \* team -> whether the team's config file exists
    stray,        \* the teams that had a config file when the scan began
    wpc,          \* position of the main goroutine
    widx,         \* index of the next team to launch a goroutine for
    tpc,          \* team -> position of its goroutine
    boundChan,    \* number of values buffered in boundChan
    semaphore,    \* counter of the sync.WaitGroup
    teamsFoundMutex, \* "free", or the team whose goroutine holds the mutex
    teamsFound,   \* the shared result slice
    local,        \* team -> the slice its append has read, <<>> outside it
    exists,       \* team -> result of its KBFSFileExists
    werr,         \* the err variable all goroutines assign
    printed,      \* the errors printed by the goroutines
    report,       \* the list printed at the end, <<"none">> before that
    wexit,        \* "running", or how the process ended
    deleted       \* the teams whose KBFSDelete succeeded

wvars == <<wteams, kbfs, stray, wpc, widx, tpc, boundChan, semaphore,
           teamsFoundMutex, teamsFound, local, exists, werr, printed, report,
           wexit, deleted>>

    \* ---- backup ----
VARIABLES
    line,         \* the characters typed at the prompt, before the newline
    bpc,          \* position of backupAction
    response,     \* the string fmt.Scanln stored
    berr,         \* the error backupAction returns ("nil" when none)
    bConfValid,   \* whether config.ValidateConfig accepts the configuration
    keyReadable,  \* whether the CA key file can be read
    keyReads,     \* number of ioutil.ReadFile calls on the CA key file
    bout,         \* what was printed after the prompt
    bexit         \* "running", or how the process ended

bvars == <<line, bpc, response, berr, bConfValid, keyReadable, keyReads, bout,
           bexit>>

    \* ---- sign ----
VARIABLES
    filename,     \* the --public-key flag, a path as a sequence of parts
    overwrite,    \* the --overwrite flag
    gConfValid,   \* whether config.ValidateConfig(conf, true) accepts
    fs,           \* path -> content of the file, or NoFile
    fs0,          \* the file system when sign started
    gpc,          \* position of signAction
    keyID,        \* the UUID drawn, 0 before that
    signature,    \* the certificate sshutils.SignKey returned, NoFile before
    statErr,      \* result of os.Stat(certPath)
    gerr,         \* the error signAction returns ("nil" when none)
    gout,         \* the lines printed: notices and certificates
    certWrites,   \* number of ioutil.WriteFile calls on certPath
    gexit         \* "running", or how the process ended

gvars == <<filename, overwrite, gConfValid, fs, fs0, gpc, keyID, signature,
           statErr, gerr, gout, certWrites, gexit>>

    \* ---- generate ----
VARIABLES
    caKey,        \* the file at conf.GetCAKeyLocation(): "absent", "old", "new"
    forceWrite    \* whether FORCE_WRITE is "true"

kvars == <<caKey, forceWrite>>

svars == <<conf, confValid, store, pc, idx, err, notify, hpc, hidx, exit,
           signals, wrote, writeTried, delTried, delFailed, delFault, sigAfterWrite, botReturned,
           mainRetract>>

vars == <<svars, wvars, bvars, gvars, kvars>>

(***************************************************************************)
(* Configuration.                                                          *)
(***************************************************************************)
RECURSIVE SeqsUpTo(_, _)
SeqsUpTo(S, n) ==
    IF n = 0 THEN {<<>>}
    ELSE LET shorter == SeqsUpTo(S, n - 1)
         IN  shorter \cup {Append(s, x) : s \in shorter, x \in S}

Range(s) == {s[i] : i \in 1..Len(s)}

NoDup(s) == \A i, j \in 1..Len(s) : i # j => s[i] # s[j]

\* CAConfig: the team list is an ordered set, non-empty unless a chat team is set.
Configs ==
    {c \in [teams : {s \in SeqsUpTo(TeamNames, MaxTeams) : NoDup(s)},
            chatTeam : {""} \cup TeamNames,
            channel : {"", "general"}] :
        c.teams # <<>> \/ c.chatTeam # ""}

BotUsername == "cabot"

\* ConfigFile with every entry naming the team it is stored in.
ConfigFileOwnTeam(c, team) ==
    [TeamName |-> team, BotName |-> BotUsername, ChannelName |-> ""]

\* ConfigFile with the configured channel also when no chat team is set.
ConfigFileChannel(c, team) ==
    [TeamName |-> IF c.chatTeam = "" THEN team ELSE c.chatTeam,
     BotName |-> BotUsername, ChannelName |-> c.channel]

\* The JSON object writeClientConfig marshals for `team`.
ConfigFile(c, team) ==
    IF c.chatTeam = ""
    THEN [TeamName |-> team, BotName |-> BotUsername, ChannelName |-> ""]
    ELSE [TeamName |-> c.chatTeam, BotName |-> BotUsername,
          ChannelName |-> c.channel]

\* writeTeams without the chat team.
writeTeamsNoChat(c) == c.teams

\* The teams writeClientConfig ranges over.
writeTeams(c) ==
    IF c.chatTeam # "" THEN Append(c.teams, c.chatTeam) ELSE c.teams

\* deleteTeams without the chat team.
deleteTeamsNoChat(c) == c.teams

\* The teams deleteClientConfig ranges over.
deleteTeams(c) ==
    IF c.chatTeam # "" THEN Append(c.teams, c.chatTeam) ELSE c.teams

\* A file left behind by an earlier run of the CA.
StaleFile == [TeamName |-> "stale", BotName |-> BotUsername, ChannelName |-> ""]

(***************************************************************************)
(* Team Directory Store calls.  `ok` is whether the call succeeds.         *)
(***************************************************************************)
KBFSWrite(st, team, content, ok) ==
    IF ok THEN [st EXCEPT ![team] = content] ELSE st

KBFSDelete(st, team, ok) ==
    IF ok THEN [st EXCEPT ![team] = NoFile] ELSE st

\* The values of the variables of a command that is not the one invoked.
WipeIdle ==
    /\ wteams = <<>>
    /\ kbfs = [t \in {} |-> FALSE]
    /\ stray = {}
    /\ wpc = "idle"
    /\ widx = 0
    /\ tpc = [t \in {} |-> "unborn"]
    /\ boundChan = 0
    /\ semaphore = 0
    /\ teamsFoundMutex = "free"
    /\ teamsFound = <<>>
    /\ local = [t \in {} |-> <<>>]
    /\ exists = [t \in {} |-> FALSE]
    /\ werr = "nil"
    /\ printed = {}
    /\ report = <<"none">>
    /\ wexit = "running"
    /\ deleted = {}

BackupIdle ==
    /\ line = <<>>
    /\ bpc = "idle"
    /\ response = <<>>
    /\ berr = "nil"
    /\ bConfValid = FALSE
    /\ keyReadable = FALSE
    /\ keyReads = 0
    /\ bout = <<>>
    /\ bexit = "running"

SignIdle ==
    /\ filename = <<>>
    /\ overwrite = FALSE
    /\ gConfValid = FALSE
    /\ fs = [p \in {} |-> NoFile]
    /\ fs0 = fs
    /\ gpc = "idle"
    /\ keyID = 0
    /\ signature = NoFile
    /\ statErr = "none"
    /\ gerr = "nil"
    /\ gout = <<>>
    /\ certWrites = 0
    /\ gexit = "running"

GenerateIdle ==
    /\ caKey = "absent"
    /\ forceWrite = FALSE

ServiceIdle ==
    /\ conf = [teams |-> <<>>, chatTeam |-> "", channel |-> ""]
    /\ confValid = FALSE
    /\ store = [t \in TeamNames |-> NoFile]
    /\ pc = "idle"
    /\ idx = 0
    /\ err = "nil"
    /\ notify = FALSE
    /\ hpc = "none"
    /\ hidx = 0
    /\ exit = "running"
    /\ signals = 0
    /\ wrote = [t \in TeamNames |-> 0]
    /\ writeTried = [t \in TeamNames |-> 0]
    /\ delTried = [t \in TeamNames |-> 0]
    /\ delFailed = FALSE
    /\ delFault = FALSE
    /\ sigAfterWrite = FALSE
    /\ botReturned = "no"
    /\ mainRetract = FALSE

(***************************************************************************)
(* The service subcommand.                                                 *)
(***************************************************************************)
ServiceInit ==
    /\ conf \in Configs
    /\ confValid \in BOOLEAN
    /\ store \in {[t \in TeamNames |-> NoFile]}
                 \cup {[t \in TeamNames |-> IF t = s THEN StaleFile ELSE NoFile] :
                         s \in TeamNames}
    /\ pc = "loadServerConfig"
    /\ idx = 0
    /\ err = "nil"
    /\ notify = FALSE
    /\ hpc = "none"
    /\ hidx = 0
    /\ exit = "running"
    /\ signals = 0
    /\ wrote = [t \in TeamNames |-> 0]
    /\ writeTried = [t \in TeamNames |-> 0]
    /\ delTried = [t \in TeamNames |-> 0]
    /\ delFailed = FALSE
    /\ delFault = FALSE
    /\ sigAfterWrite = FALSE
    /\ botReturned = "no"
    /\ mainRetract = FALSE
    /\ WipeIdle /\ BackupIdle /\ SignIdle /\ GenerateIdle

Running == exit = "running"

\* loadServerConfig, called first by loadServerConfigAndWriteClientConfig.
loadServerConfig ==
    /\ Running /\ pc = "loadServerConfig"
    /\ IF confValid
       THEN /\ pc' = "GetUsername"
            /\ err' = err
       ELSE /\ pc' = "return"
            /\ err' = "Failed to validate config"
    /\ UNCHANGED <<conf, confValid, store, idx, notify, hpc, hidx, exit,
                   signals, wrote, writeTried, delTried, delFailed, delFault, sigAfterWrite,
                   botReturned, mainRetract>>
    /\ UNCHANGED <<wvars, bvars, gvars, kvars>>

\* writeClientConfig up to its range loop: bot.GetUsername and the team list.
GetUsername ==
    /\ Running /\ pc = "GetUsername"
    /\ \E ok \in BOOLEAN :
         IF ~ok
         THEN /\ pc' = "return"
              /\ err' = "Failed to write the client config"
              /\ idx' = idx
         ELSE /\ pc' = IF writeTeams(conf) = <<>> THEN "capture" ELSE "write"
              /\ err' = err
              /\ idx' = 1
    /\ UNCHANGED <<conf, confValid, store, notify, hpc, hidx, exit,
                   signals, wrote, writeTried, delTried, delFailed, delFault, sigAfterWrite,
                   botReturned, mainRetract>>
    /\ UNCHANGED <<wvars, bvars, gvars, kvars>>

\* One iteration of writeClientConfig's range loop.
writeClientConfig ==
    /\ Running /\ pc = "write"
    /\ LET team == writeTeams(conf)[idx] IN
       \E ok \in BOOLEAN :
         /\ store' = KBFSWrite(store, team, ConfigFile(conf, team), ok)
         /\ writeTried' = [writeTried EXCEPT ![team] = @ + 1]
         /\ IF ok
            THEN /\ wrote' = [wrote EXCEPT ![team] = @ + 1]
                 /\ idx' = idx + 1
                 /\ pc' = IF idx = Len(writeTeams(conf)) THEN "capture" ELSE "write"
                 /\ err' = err
            ELSE /\ wrote' = wrote
                 /\ idx' = idx
                 /\ pc' = "return"
                 /\ err' = "Failed to write the client config"
    /\ UNCHANGED <<conf, confValid, notify, hpc, hidx, exit,
                   signals, delTried, delFailed, delFault, sigAfterWrite,
                   botReturned, mainRetract>>
    /\ UNCHANGED <<wvars, bvars, gvars, kvars>>

\* captureControlCToDeleteClientConfig: signal.Notify and the go statement.
captureControlCToDeleteClientConfig ==
    /\ Running /\ pc = "capture"
    /\ notify' = TRUE
    /\ hpc' = "spawned"
    /\ pc' = "StartBot"
    /\ UNCHANGED <<conf, confValid, store, idx, err, hidx, exit,
                   signals, wrote, writeTried, delTried, delFailed, delFault, sigAfterWrite,
                   botReturned, mainRetract>>
    /\ UNCHANGED <<wvars, bvars, gvars, kvars>>

\* bot.StartBot returns, with or without an error.
StartBot ==
    /\ Running /\ pc = "StartBot"
    /\ \E botErr \in BOOLEAN :
         IF botErr
         THEN /\ botReturned' = "err"
              /\ err' = "CA chatbot crashed"
              /\ pc' = "return"
              /\ idx' = idx
              /\ mainRetract' = mainRetract
         ELSE /\ botReturned' = "nil"
              /\ err' = err
              /\ pc' = IF deleteTeams(conf) = <<>> THEN "return" ELSE "delete"
              /\ idx' = 1
              /\ mainRetract' = TRUE
    /\ UNCHANGED <<conf, confValid, store, notify, hpc, hidx, exit,
                   signals, wrote, writeTried, delTried, delFailed, delFault, sigAfterWrite>>
    /\ UNCHANGED <<wvars, bvars, gvars, kvars>>

\* One iteration of deleteClientConfig's range loop, on the main goroutine.
deleteClientConfig ==
    /\ Running /\ pc = "delete"
    /\ LET team == deleteTeams(conf)[idx] IN
       \E ok \in BOOLEAN :
         /\ store' = KBFSDelete(store, team, ok)
         /\ delTried' = [delTried EXCEPT ![team] = @ + 1]
         /\ delFailed' = (delFailed \/ ~ok)
         /\ delFault' = (delFault \/ (~ok /\ store[team] # NoFile))
         /\ IF ok
            THEN /\ idx' = idx + 1
                 /\ pc' = IF idx = Len(deleteTeams(conf)) THEN "return" ELSE "delete"
                 /\ err' = err
            ELSE /\ idx' = idx
                 /\ pc' = "return"
                 /\ err' = "delete failed"
    /\ UNCHANGED <<conf, confValid, notify, hpc, hidx, exit,
                   signals, wrote, writeTried, sigAfterWrite, botReturned, mainRetract>>
    /\ UNCHANGED <<wvars, bvars, gvars, kvars>>

\* The action has returned to main: log.Fatal on an error, else a normal end.
serviceExit ==
    /\ Running /\ pc = "return"
    /\ exit' = IF err = "nil" THEN "status 0" ELSE "status 1"
    /\ UNCHANGED <<conf, confValid, store, pc, idx, err, notify, hpc, hidx,
                   signals, wrote, writeTried, delTried, delFailed, delFault, sigAfterWrite,
                   botReturned, mainRetract>>
    /\ UNCHANGED <<wvars, bvars, gvars, kvars>>

\* The signal goroutine starts and blocks in the receive from signalChan.
handlerWait ==
    /\ Running /\ hpc = "spawned"
    /\ hpc' = "waiting"
    /\ UNCHANGED <<conf, confValid, store, pc, idx, err, notify, hidx, exit,
                   signals, wrote, writeTried, delTried, delFailed, delFault, sigAfterWrite,
                   botReturned, mainRetract>>
    /\ UNCHANGED <<wvars, bvars, gvars, kvars>>

\* An interrupt or SIGTERM reaches the process.  Before signal.Notify the
\* default disposition ends the process.  After it the runtime hands the
\* signal to the unbuffered signalChan without blocking: it is received only
\* if the goroutine is blocked in the receive, and is dropped otherwise.
Signal ==
    /\ Running /\ signals < MaxSignals
    /\ signals' = signals + 1
    /\ sigAfterWrite' = (sigAfterWrite \/ \E t \in TeamNames : wrote[t] > 0)
    /\ IF ~notify
       THEN /\ exit' = "killed by signal"
            /\ UNCHANGED <<hpc, hidx>>
       ELSE /\ exit' = exit
            /\ IF hpc = "waiting"
               THEN /\ hpc' = IF deleteTeams(conf) = <<>> THEN "exit 0" ELSE "delete"
                    /\ hidx' = 1
               ELSE UNCHANGED <<hpc, hidx>>
    /\ UNCHANGED <<conf, confValid, store, pc, idx, err, notify,
                   wrote, writeTried, delTried, delFailed, delFault, botReturned,
                   mainRetract>>
    /\ UNCHANGED <<wvars, bvars, gvars, kvars>>

\* One iteration of deleteClientConfig's range loop, on the signal goroutine.
handlerDeleteClientConfig ==
    /\ Running /\ hpc = "delete"
    /\ LET team == deleteTeams(conf)[hidx] IN
       \E ok \in BOOLEAN :
         /\ store' = KBFSDelete(store, team, ok)
         /\ delTried' = [delTried EXCEPT ![team] = @ + 1]
         /\ delFailed' = (delFailed \/ ~ok)
         /\ delFault' = (delFault \/ (~ok /\ store[team] # NoFile))
         /\ IF ok
            THEN /\ hidx' = hidx + 1
                 /\ hpc' = IF hidx = Len(deleteTeams(conf)) THEN "exit 0" ELSE "delete"
            ELSE /\ hidx' = hidx
                 /\ hpc' = "exit 1"
    /\ UNCHANGED <<conf, confValid, pc, idx, err, notify, exit,
                   signals, wrote, writeTried, sigAfterWrite, botReturned, mainRetract>>
    /\ UNCHANGED <<wvars, bvars, gvars, kvars>>

\* The signal goroutine's os.Exit.
handlerExit ==
    /\ Running /\ hpc \in {"exit 0", "exit 1"}
    /\ exit' = IF hpc = "exit 0" THEN "status 0 by handler" ELSE "status 1 by handler"
    /\ UNCHANGED <<conf, confValid, store, pc, idx, err, notify, hpc, hidx,
                   signals, wrote, writeTried, delTried, delFailed, delFault, sigAfterWrite,
                   botReturned, mainRetract>>
    /\ UNCHANGED <<wvars, bvars, gvars, kvars>>

ServiceNext ==
    \/ loadServerConfig
    \/ GetUsername
    \/ writeClientConfig
    \/ captureControlCToDeleteClientConfig
    \/ StartBot
    \/ deleteClientConfig
    \/ serviceExit
    \/ handlerWait
    \/ Signal
    \/ handlerDeleteClientConfig
    \/ handlerExit

SpecService == ServiceInit /\ [][ServiceNext]_vars

(***************************************************************************)
(* The generate subcommand.  It shares the signal goroutine of             *)
(* captureControlCToDeleteClientConfig with the service subcommand.        *)
(***************************************************************************)
GenerateInit ==
    /\ conf \in Configs
    /\ confValid \in BOOLEAN
    /\ store \in {[t \in TeamNames |-> NoFile]}
                 \cup {[t \in TeamNames |-> IF t = s THEN StaleFile ELSE NoFile] :
                         s \in TeamNames}
    /\ pc = "generate: loadServerConfig"
    /\ idx = 0
    /\ err = "nil"
    /\ notify = FALSE
    /\ hpc = "none"
    /\ hidx = 0
    /\ exit = "running"
    /\ signals = 0
    /\ wrote = [t \in TeamNames |-> 0]
    /\ writeTried = [t \in TeamNames |-> 0]
    /\ delTried = [t \in TeamNames |-> 0]
    /\ delFailed = FALSE
    /\ delFault = FALSE
    /\ sigAfterWrite = FALSE
    /\ botReturned = "no"
    /\ mainRetract = FALSE
    /\ caKey \in {"absent", "old"}
    /\ forceWrite \in BOOLEAN
    /\ WipeIdle /\ BackupIdle /\ SignIdle

\* conf, err := loadServerConfig() in generateAction.
generateLoadServerConfig ==
    /\ Running /\ pc = "generate: loadServerConfig"
    /\ IF confValid
       THEN /\ pc' = "generate: capture"
            /\ err' = err
       ELSE /\ pc' = "return"
            /\ err' = "Failed to validate config"
    /\ UNCHANGED <<conf, confValid, store, idx, notify, hpc, hidx, exit,
                   signals, wrote, writeTried, delTried, delFailed, delFault,
                   sigAfterWrite, botReturned, mainRetract>>
    /\ UNCHANGED <<wvars, bvars, gvars, kvars>>

\* captureControlCToDeleteClientConfig(conf) in generateAction.
generateCapture ==
    /\ Running /\ pc = "generate: capture"
    /\ notify' = TRUE
    /\ hpc' = "spawned"
    /\ pc' = "Generate"
    /\ UNCHANGED <<conf, confValid, store, idx, err, hidx, exit,
                   signals, wrote, writeTried, delTried, delFailed, delFault,
                   sigAfterWrite, botReturned, mainRetract>>
    /\ UNCHANGED <<wvars, bvars, gvars, kvars>>

\* sshutils.Generate(conf, force): refuses to replace a key unless forced.
Generate ==
    /\ Running /\ pc = "Generate"
    /\ IF caKey # "absent" /\ ~forceWrite
       THEN /\ caKey' = caKey
            /\ err' = "Failed to generate a new key"
       ELSE \E ok \in BOOLEAN :
              /\ caKey' = IF ok THEN "new" ELSE caKey
              /\ err' = IF ok THEN err ELSE "Failed to generate a new key"
    /\ pc' = "return"
    /\ UNCHANGED <<conf, confValid, store, idx, notify, hpc, hidx, exit,
                   signals, wrote, writeTried, delTried, delFailed, delFault,
                   sigAfterWrite, botReturned, mainRetract, forceWrite>>
    /\ UNCHANGED <<wvars, bvars, gvars>>

GenerateNext ==
    \/ generateLoadServerConfig
    \/ generateCapture
    \/ Generate
    \/ serviceExit
    \/ handlerWait
    \/ Signal
    \/ handlerDeleteClientConfig
    \/ handlerExit

SpecGenerate == GenerateInit /\ [][GenerateNext]_vars

(***************************************************************************)
(* The wipe-all-configs scanner of mainAction.                             *)
(***************************************************************************)
\* shared.BoundedParallelismLimit, the capacity of boundChan.
BoundedParallelismLimit == 2

WipeInit ==
    /\ wteams \in {SubSeq(TeamOrder, 1, n) : n \in 0..MaxWipeTeams}
    /\ kbfs \in [Range(wteams) -> BOOLEAN]
    /\ stray = {t \in Range(wteams) : kbfs[t]}
    /\ wpc = "KBFSList"
    /\ widx = 0
    /\ tpc = [t \in Range(wteams) |-> "unborn"]
    /\ boundChan = 0
    /\ semaphore = 0
    /\ teamsFoundMutex = "free"
    /\ teamsFound = <<>>
    /\ local = [t \in Range(wteams) |-> <<>>]
    /\ exists = [t \in Range(wteams) |-> FALSE]
    /\ werr = "nil"
    /\ printed = {}
    /\ report = <<"none">>
    /\ wexit = "running"
    /\ deleted = {}
    /\ ServiceIdle /\ BackupIdle /\ SignIdle /\ GenerateIdle

WipeRunning == wexit = "running"

\* KBFSList("/keybase/team/"), then the WaitGroup, the channel and the slice.
wipeKBFSList ==
    /\ WipeRunning /\ wpc = "KBFSList"
    /\ \E ok \in BOOLEAN :
         IF ok
         THEN /\ semaphore' = Len(wteams)
              /\ widx' = 1
              /\ wpc' = IF wteams = <<>> THEN "Wait" ELSE "launch"
              /\ werr' = werr
         ELSE /\ wpc' = "return"
              /\ werr' = "KBFSList failed"
              /\ UNCHANGED <<semaphore, widx>>
    /\ UNCHANGED <<wteams, kbfs, stray, tpc, boundChan, teamsFoundMutex,
                   teamsFound, local, exists, printed, report, wexit, deleted>>
    /\ UNCHANGED <<svars, bvars, gvars, kvars>>

\* One iteration of the range loop: the go statement for the next team.
wipeLaunch ==
    /\ WipeRunning /\ wpc = "launch"
    /\ tpc' = [tpc EXCEPT ![wteams[widx]] = "acquire"]
    /\ widx' = widx + 1
    /\ wpc' = IF widx = Len(wteams) THEN "Wait" ELSE "launch"
    /\ UNCHANGED <<wteams, kbfs, stray, boundChan, semaphore, teamsFoundMutex,
                   teamsFound, local, exists, werr, printed, report, wexit,
                   deleted>>
    /\ UNCHANGED <<svars, bvars, gvars, kvars>>

\* taskAcquire without the capacity of the channel.
taskAcquireUnbounded(t) ==
    /\ WipeRunning /\ tpc[t] = "acquire"
    /\ boundChan' = boundChan + 1
    /\ tpc' = [tpc EXCEPT ![t] = "KBFSFileExists"]
    /\ UNCHANGED <<wteams, kbfs, stray, wpc, widx, semaphore, teamsFoundMutex,
                   teamsFound, local, exists, werr, printed, report, wexit,
                   deleted>>
    /\ UNCHANGED <<svars, bvars, gvars, kvars>>

\* boundChan <- 0: blocks while the channel is full.
taskAcquire(t) ==
    /\ WipeRunning /\ tpc[t] = "acquire"
    /\ boundChan < BoundedParallelismLimit
    /\ boundChan' = boundChan + 1
    /\ tpc' = [tpc EXCEPT ![t] = "KBFSFileExists"]
    /\ UNCHANGED <<wteams, kbfs, stray, wpc, widx, semaphore, teamsFoundMutex,
                   teamsFound, local, exists, werr, printed, report, wexit,
                   deleted>>
    /\ UNCHANGED <<svars, bvars, gvars, kvars>>

\* exists, _ := KBFSFileExists(filename): a failed check reads as false.
taskFileExists(t) ==
    /\ WipeRunning /\ tpc[t] = "KBFSFileExists"
    /\ \E ok \in BOOLEAN :
         /\ exists' = [exists EXCEPT ![t] = ok /\ kbfs[t]]
         /\ tpc' = [tpc EXCEPT ![t] = IF ok /\ kbfs[t] THEN "KBFSDelete" ELSE "Done"]
    /\ UNCHANGED <<wteams, kbfs, stray, wpc, widx, boundChan, semaphore,
                   teamsFoundMutex, teamsFound, local, werr, printed, report,
                   wexit, deleted>>
    /\ UNCHANGED <<svars, bvars, gvars, kvars>>

\* err = KBFSDelete(filename): assigns the err all goroutines share.
taskDelete(t) ==
    /\ WipeRunning /\ tpc[t] = "KBFSDelete"
    /\ \E ok \in BOOLEAN :
         /\ kbfs' = IF ok THEN [kbfs EXCEPT ![t] = FALSE] ELSE kbfs
         /\ deleted' = IF ok THEN deleted \cup {t} ELSE deleted
         /\ werr' = IF ok THEN "nil" ELSE t
    /\ tpc' = [tpc EXCEPT ![t] = "checkErr"]
    /\ UNCHANGED <<wteams, stray, wpc, widx, boundChan, semaphore,
                   teamsFoundMutex, teamsFound, local, exists, printed, report,
                   wexit>>
    /\ UNCHANGED <<svars, bvars, gvars, kvars>>

\* if err != nil { fmt.Printf(err) }: reads the shared err.
taskCheckErr(t) ==
    /\ WipeRunning /\ tpc[t] = "checkErr"
    /\ printed' = IF werr # "nil" THEN printed \cup {werr} ELSE printed
    /\ tpc' = [tpc EXCEPT ![t] = "Lock"]
    /\ UNCHANGED <<wteams, kbfs, stray, wpc, widx, boundChan, semaphore,
                   teamsFoundMutex, teamsFound, local, exists, werr, report,
                   wexit, deleted>>
    /\ UNCHANGED <<svars, bvars, gvars, kvars>>

\* teamsFoundMutex.Lock()
taskLock(t) ==
    /\ WipeRunning /\ tpc[t] = "Lock"
    /\ teamsFoundMutex = "free"
    /\ teamsFoundMutex' = t
    /\ tpc' = [tpc EXCEPT ![t] = "appendRead"]
    /\ UNCHANGED <<wteams, kbfs, stray, wpc, widx, boundChan, semaphore,
                   teamsFound, local, exists, werr, printed, report, wexit,
                   deleted>>
    /\ UNCHANGED <<svars, bvars, gvars, kvars>>

\* append(teamsFound, team): the read of the slice.
taskAppendRead(t) ==
    /\ WipeRunning /\ tpc[t] = "appendRead"
    /\ local' = [local EXCEPT ![t] = teamsFound]
    /\ tpc' = [tpc EXCEPT ![t] = "appendWrite"]
    /\ UNCHANGED <<wteams, kbfs, stray, wpc, widx, boundChan, semaphore,
                   teamsFoundMutex, teamsFound, exists, werr, printed, report,
                   wexit, deleted>>
    /\ UNCHANGED <<svars, bvars, gvars, kvars>>

\* teamsFound = append(...): the write of the extended slice.
taskAppendWrite(t) ==
    /\ WipeRunning /\ tpc[t] = "appendWrite"
    /\ teamsFound' = Append(local[t], t)
    /\ tpc' = [tpc EXCEPT ![t] = "Unlock"]
    /\ UNCHANGED <<wteams, kbfs, stray, wpc, widx, boundChan, semaphore,
                   teamsFoundMutex, local, exists, werr, printed, report,
                   wexit, deleted>>
    /\ UNCHANGED <<svars, bvars, gvars, kvars>>

\* teamsFoundMutex.Unlock()
taskUnlock(t) ==
    /\ WipeRunning /\ tpc[t] = "Unlock"
    /\ teamsFoundMutex' = "free"
    /\ tpc' = [tpc EXCEPT ![t] = "Done"]
    /\ UNCHANGED <<wteams, kbfs, stray, wpc, widx, boundChan, semaphore,
                   teamsFound, local, exists, werr, printed, report, wexit,
                   deleted>>
    /\ UNCHANGED <<svars, bvars, gvars, kvars>>

\* semaphore.Done()
taskDone(t) ==
    /\ WipeRunning /\ tpc[t] = "Done"
    /\ semaphore' = semaphore - 1
    /\ tpc' = [tpc EXCEPT ![t] = "release"]
    /\ UNCHANGED <<wteams, kbfs, stray, wpc, widx, boundChan, teamsFoundMutex,
                   teamsFound, local, exists, werr, printed, report, wexit,
                   deleted>>
    /\ UNCHANGED <<svars, bvars, gvars, kvars>>

\* taskRelease with the value left in the channel.
taskReleaseKeep(t) ==
    /\ WipeRunning /\ tpc[t] = "release"
    /\ tpc' = [tpc EXCEPT ![t] = "end"]
    /\ UNCHANGED <<wteams, kbfs, stray, wpc, widx, boundChan, semaphore,
                   teamsFoundMutex, teamsFound, local, exists, werr, printed,
                   report, wexit, deleted>>
    /\ UNCHANGED <<svars, bvars, gvars, kvars>>

\* <-boundChan
taskRelease(t) ==
    /\ WipeRunning /\ tpc[t] = "release"
    /\ boundChan > 0
    /\ boundChan' = boundChan - 1
    /\ tpc' = [tpc EXCEPT ![t] = "end"]
    /\ UNCHANGED <<wteams, kbfs, stray, wpc, widx, semaphore, teamsFoundMutex,
                   teamsFound, local, exists, werr, printed, report, wexit,
                   deleted>>
    /\ UNCHANGED <<svars, bvars, gvars, kvars>>

\* semaphore.Wait() returns once the counter is zero.
wipeWait ==
    /\ WipeRunning /\ wpc = "Wait"
    /\ semaphore = 0
    /\ wpc' = "report"
    /\ UNCHANGED <<wteams, kbfs, stray, widx, tpc, boundChan, semaphore,
                   teamsFoundMutex, teamsFound, local, exists, werr, printed,
                   report, wexit, deleted>>
    /\ UNCHANGED <<svars, bvars, gvars, kvars>>

\* fmt.Printf("Deleted configs found in these teams: ...", teamsFound)
wipeReport ==
    /\ WipeRunning /\ wpc = "report"
    /\ report' = teamsFound
    /\ wpc' = "return"
    /\ UNCHANGED <<wteams, kbfs, stray, widx, tpc, boundChan, semaphore,
                   teamsFoundMutex, teamsFound, local, exists, werr, printed,
                   wexit, deleted>>
    /\ UNCHANGED <<svars, bvars, gvars, kvars>>

\* mainAction has returned to main; the process ends with its goroutines.
wipeExit ==
    /\ WipeRunning /\ wpc = "return"
    /\ wexit' = IF report = <<"none">> THEN "status 1" ELSE "status 0"
    /\ UNCHANGED <<wteams, kbfs, stray, wpc, widx, tpc, boundChan, semaphore,
                   teamsFoundMutex, teamsFound, local, exists, werr, printed,
                   report, deleted>>
    /\ UNCHANGED <<svars, bvars, gvars, kvars>>

WipeNext ==
    \/ wipeKBFSList
    \/ wipeLaunch
    \/ \E t \in Range(wteams) : taskAcquire(t)
    \/ \E t \in Range(wteams) : taskFileExists(t)
    \/ \E t \in Range(wteams) : taskDelete(t)
    \/ \E t \in Range(wteams) : taskCheckErr(t)
    \/ \E t \in Range(wteams) : taskLock(t)
    \/ \E t \in Range(wteams) : taskAppendRead(t)
    \/ \E t \in Range(wteams) : taskAppendWrite(t)
    \/ \E t \in Range(wteams) : taskUnlock(t)
    \/ \E t \in Range(wteams) : taskDone(t)
    \/ \E t \in Range(wteams) : taskRelease(t)
    \/ wipeWait
    \/ wipeReport
    \/ wipeExit

SpecWipe == WipeInit /\ [][WipeNext]_vars

\* The scheduler always runs some goroutine that can take a step, and every
\* store call returns.
SpecWipeFair == SpecWipe /\ WF_vars(WipeNext)

(***************************************************************************)
(* The backup subcommand.                                                  *)
(***************************************************************************)
Chars == {"y", "Y", "e", "s", " "}

Yes == <<"y", "e", "s">>

RECURSIVE SkipSpace(_)
\* ss.SkipSpace: drops the leading blanks of the input.
SkipSpace(in) ==
    IF in # <<>> /\ Head(in) = " " THEN SkipSpace(Tail(in)) ELSE in

RECURSIVE Token(_)
\* ss.token: the leading run of non-blank characters.
Token(in) ==
    IF in = <<>> \/ Head(in) = " " THEN <<>> ELSE <<Head(in)>> \o Token(Tail(in))

\* fmt.Scanln(&response) on the typed line: blanks are skipped, the first
\* word is stored, and only blanks may follow it before the newline.
Scanln(in) ==
    LET rest == SkipSpace(in)
        word == Token(rest)
        after == SubSeq(rest, Len(word) + 1, Len(rest))
    IN  IF rest = <<>>
        THEN [response |-> <<>>, err |-> "unexpected newline"]
        ELSE IF SkipSpace(after) # <<>>
        THEN [response |-> word, err |-> "expected newline"]
        ELSE [response |-> word, err |-> "nil"]

BackupInit ==
    /\ line \in SeqsUpTo(Chars, MaxLine)
    /\ bpc = "Scanln"
    /\ response = <<>>
    /\ berr = "nil"
    /\ bConfValid \in BOOLEAN
    /\ keyReadable \in BOOLEAN
    /\ keyReads = 0
    /\ bout = <<>>
    /\ bexit = "running"
    /\ ServiceIdle /\ WipeIdle /\ SignIdle /\ GenerateIdle

BackupRunning == bexit = "running"

\* The prompt and fmt.Scanln(&response).
backupScanln ==
    /\ BackupRunning /\ bpc = "Scanln"
    /\ LET r == Scanln(line) IN
         /\ response' = r.response
         /\ berr' = r.err
         /\ bpc' = IF r.err # "nil" THEN "return" ELSE "confirm"
    /\ UNCHANGED <<line, bConfValid, keyReadable, keyReads, bout, bexit>>
    /\ UNCHANGED <<svars, wvars, gvars, kvars>>

\* backupConfirm with any response taken as the confirmation.
backupConfirmAny ==
    /\ BackupRunning /\ bpc = "confirm"
    /\ bpc' = "loadServerConfig"
    /\ UNCHANGED <<line, response, berr, bConfValid, keyReadable, keyReads,
                   bout, bexit>>
    /\ UNCHANGED <<svars, wvars, gvars, kvars>>

\* if response != "yes" { return error }
backupConfirm ==
    /\ BackupRunning /\ bpc = "confirm"
    /\ IF response # Yes
       THEN /\ bpc' = "return"
            /\ berr' = "Did not get confirmation of key export, aborting"
       ELSE /\ bpc' = "loadServerConfig"
            /\ berr' = berr
    /\ UNCHANGED <<line, response, bConfValid, keyReadable, keyReads, bout,
                   bexit>>
    /\ UNCHANGED <<svars, wvars, gvars, kvars>>

\* conf, err := loadServerConfig()
backupLoadServerConfig ==
    /\ BackupRunning /\ bpc = "loadServerConfig"
    /\ IF bConfValid
       THEN /\ bpc' = "ReadFile"
            /\ berr' = berr
       ELSE /\ bpc' = "return"
            /\ berr' = "Failed to validate config"
    /\ UNCHANGED <<line, response, bConfValid, keyReadable, keyReads, bout,
                   bexit>>
    /\ UNCHANGED <<svars, wvars, gvars, kvars>>

\* bytes, err := ioutil.ReadFile(conf.GetCAKeyLocation())
backupReadFile ==
    /\ BackupRunning /\ bpc = "ReadFile"
    /\ keyReads' = keyReads + 1
    /\ IF keyReadable
       THEN /\ bpc' = "export"
            /\ berr' = berr
       ELSE /\ bpc' = "return"
            /\ berr' = "Failed to load the CA key"
    /\ UNCHANGED <<line, response, bConfValid, keyReadable, bout, bexit>>
    /\ UNCHANGED <<svars, wvars, gvars, kvars>>

\* klog.Log and the Println calls that print the key.
backupExport ==
    /\ BackupRunning /\ bpc = "export"
    /\ bout' = Append(bout, "CA private key")
    /\ bpc' = "return"
    /\ UNCHANGED <<line, response, berr, bConfValid, keyReadable, keyReads,
                   bexit>>
    /\ UNCHANGED <<svars, wvars, gvars, kvars>>

\* backupAction has returned to main.
backupExit ==
    /\ BackupRunning /\ bpc = "return"
    /\ bexit' = IF berr = "nil" THEN "status 0" ELSE "status 1"
    /\ UNCHANGED <<line, bpc, response, berr, bConfValid, keyReadable,
                   keyReads, bout>>
    /\ UNCHANGED <<svars, wvars, gvars, kvars>>

BackupNext ==
    \/ backupScanln
    \/ backupConfirm
    \/ backupLoadServerConfig
    \/ backupReadFile
    \/ backupExport
    \/ backupExit

SpecBackup == BackupInit /\ [][BackupNext]_vars

(***************************************************************************)
(* The sign subcommand.                                                    *)
(***************************************************************************)
\* Paths are sequences of parts; the last part of a public key is ".pub".
PubKeyFiles == {<<"id_rsa", ".pub">>, <<"id_rsa">>}

\* shared.PubKeyPathToKeyPath: the path without a trailing ".pub".
PubKeyPathToKeyPath(p) ==
    IF p # <<>> /\ p[Len(p)] = ".pub" THEN SubSeq(p, 1, Len(p) - 1) ELSE p

\* shared.KeyPathToCert: the key path followed by "-cert.pub".
KeyPathToCert(p) == Append(p, "-cert.pub")

\* certPath of signAction.
certPath == KeyPathToCert(PubKeyPathToKeyPath(filename))

Paths == PubKeyFiles \cup {KeyPathToCert(PubKeyPathToKeyPath(f)) : f \in PubKeyFiles}

PubKeyBytes == [kind |-> "public key"]

\* A certificate issued before this run.
OldCert == [kind |-> "certificate", keyID |-> 0, pubKey |-> PubKeyBytes]

\* What a failed write leaves of a file it had opened and truncated.
Truncated == [kind |-> "truncated"]

\* sshutils.SignKey: the certificate for the key ID and the public key.
SignKey(id, pubKey) ==
    [kind |-> "certificate", keyID |-> id, pubKey |-> pubKey]

\* The write decision with any os.Stat error taken as "does not exist".
ShouldWriteOnAnyError(stat, ow) == stat # "nil" \/ ow

\* The write decision with the overwrite flag alone.
ShouldWriteOnOverwrite(stat, ow) == ow

\* os.IsNotExist(err) || c.Bool("overwrite")
ShouldWrite(stat, ow) == stat = "NotExist" \/ ow

SignInit ==
    /\ filename \in PubKeyFiles
    /\ overwrite \in BOOLEAN
    /\ gConfValid \in BOOLEAN
    /\ \E pub \in {PubKeyBytes, NoFile}, cert \in {OldCert, NoFile} :
         fs = [p \in Paths |-> IF p = filename THEN pub
                               ELSE IF p = KeyPathToCert(PubKeyPathToKeyPath(filename))
                               THEN cert ELSE NoFile]
    /\ fs0 = fs
    /\ gpc = "ValidateConfig"
    /\ keyID = 0
    /\ signature = NoFile
    /\ statErr = "none"
    /\ gerr = "nil"
    /\ gout = <<>>
    /\ certWrites = 0
    /\ gexit = "running"
    /\ ServiceIdle /\ WipeIdle /\ BackupIdle /\ GenerateIdle

SignRunning == gexit = "running"

\* config.ValidateConfig(conf, true), then the principals and expiration.
signValidateConfig ==
    /\ SignRunning /\ gpc = "ValidateConfig"
    /\ IF gConfValid
       THEN /\ gpc' = "NewRandom"
            /\ gerr' = gerr
       ELSE /\ gpc' = "return"
            /\ gerr' = "Invalid config"
    /\ UNCHANGED <<filename, overwrite, gConfValid, fs, fs0, keyID, signature,
                   statErr, gout, certWrites, gexit>>
    /\ UNCHANGED <<svars, wvars, bvars, kvars>>

\* randomUUID, err := uuid.NewRandom()
signNewRandom ==
    /\ SignRunning /\ gpc = "NewRandom"
    /\ \/ /\ \E id \in 1..MaxKeyIDs : keyID' = id
          /\ gpc' = "ReadFile"
          /\ gerr' = gerr
       \/ /\ keyID' = keyID
          /\ gpc' = "return"
          /\ gerr' = "Failed to generate unique key ID"
    /\ UNCHANGED <<filename, overwrite, gConfValid, fs, fs0, signature,
                   statErr, gout, certWrites, gexit>>
    /\ UNCHANGED <<svars, wvars, bvars, kvars>>

\* pubKey, err := ioutil.ReadFile(filename)
signReadFile ==
    /\ SignRunning /\ gpc = "ReadFile"
    /\ \E ok \in BOOLEAN :
         IF ok /\ fs[filename] # NoFile
         THEN /\ gpc' = "SignKey"
              /\ gerr' = gerr
         ELSE /\ gpc' = "return"
              /\ gerr' = "Failed to read file"
    /\ UNCHANGED <<filename, overwrite, gConfValid, fs, fs0, keyID, signature,
                   statErr, gout, certWrites, gexit>>
    /\ UNCHANGED <<svars, wvars, bvars, kvars>>

\* signature, err := sshutils.SignKey(...)
signSignKey ==
    /\ SignRunning /\ gpc = "SignKey"
    /\ \E ok \in BOOLEAN :
         IF ok
         THEN /\ signature' = SignKey(keyID, fs[filename])
              /\ gpc' = "Stat"
              /\ gerr' = gerr
         ELSE /\ signature' = signature
              /\ gpc' = "return"
              /\ gerr' = "Failed to sign key"
    /\ UNCHANGED <<filename, overwrite, gConfValid, fs, fs0, keyID, statErr,
                   gout, certWrites, gexit>>
    /\ UNCHANGED <<svars, wvars, bvars, kvars>>

\* _, err = os.Stat(certPath) and the choice between writing and printing.
signStat ==
    /\ SignRunning /\ gpc = "Stat"
    /\ \E e \in (IF fs[certPath] = NoFile THEN {"NotExist", "other"}
                                         ELSE {"nil", "other"}) :
         /\ statErr' = e
         /\ gpc' = IF ShouldWrite(e, overwrite) THEN "WriteFile" ELSE "print"
    /\ UNCHANGED <<filename, overwrite, gConfValid, fs, fs0, keyID, signature,
                   gerr, gout, certWrites, gexit>>
    /\ UNCHANGED <<svars, wvars, bvars, kvars>>

\* ioutil.WriteFile(certPath, signature, 0600) and the notice.
signWriteFile ==
    /\ SignRunning /\ gpc = "WriteFile"
    /\ certWrites' = certWrites + 1
    /\ \E outcome \in {"written", "open failed", "write failed"} :
         /\ fs' = IF outcome = "written" THEN [fs EXCEPT ![certPath] = signature]
                  ELSE IF outcome = "write failed"
                  THEN [fs EXCEPT ![certPath] = Truncated]
                  ELSE fs
         /\ gerr' = IF outcome = "written" THEN gerr
                    ELSE "Failed to write certificate to file"
         /\ gout' = IF outcome = "written"
                    THEN Append(gout, [msg |-> "Provisioned new certificate in",
                                       cert |-> NoFile])
                    ELSE gout
    /\ gpc' = "return"
    /\ UNCHANGED <<filename, overwrite, gConfValid, fs0, keyID, signature,
                   statErr, gexit>>
    /\ UNCHANGED <<svars, wvars, bvars, kvars>>

\* The two Printf calls of the else branch: the notice and the certificate.
signPrintCert ==
    /\ SignRunning /\ gpc = "print"
    /\ gout' = Append(gout, [msg |-> "Provisioned new certificate. Place this in",
                             cert |-> signature])
    /\ gpc' = "return"
    /\ UNCHANGED <<filename, overwrite, gConfValid, fs, fs0, keyID, signature,
                   statErr, gerr, certWrites, gexit>>
    /\ UNCHANGED <<svars, wvars, bvars, kvars>>

\* signAction has returned to main.
signExit ==
    /\ SignRunning /\ gpc = "return"
    /\ gexit' = IF gerr = "nil" THEN "status 0" ELSE "status 1"
    /\ UNCHANGED <<filename, overwrite, gConfValid, fs, fs0, gpc, keyID,
                   signature, statErr, gerr, gout, certWrites>>
    /\ UNCHANGED <<svars, wvars, bvars, kvars>>

SignNext ==
    \/ signValidateConfig
    \/ signNewRandom
    \/ signReadFile
    \/ signSignKey
    \/ signStat
    \/ signWriteFile
    \/ signPrintCert
    \/ signExit

SpecSign == SignInit /\ [][SignNext]_vars

(***************************************************************************)
(* Properties of the service subcommand.                                   *)
(***************************************************************************)
\* The computed team set: the authorized teams plus the chat-team override.
ComputedTeamSet(c) ==
    Range(c.teams) \cup (IF c.chatTeam # "" THEN {c.chatTeam} ELSE {})

\* writeClientConfig has returned nil.
Published == pc = "capture" \/ notify

\* The teams this process has written an entry for.
PublishedTeams == {t \in TeamNames : wrote[t] > 0}

\* C1 (as claimed): whenever the process has ended and a termination signal
\* had arrived after Publish wrote its first entry, and no store delete
\* failed, no entry this process published is left in the store.
C1_SignalRetractsAll ==
    (exit # "running" /\ sigAfterWrite /\ ~delFailed)
        => \A t \in PublishedTeams : store[t] = NoFile

\* C2 (as claimed): when serviceAction returns after bot.StartBot returned,
\* deleteClientConfig has been called; and an error of the bot is the error
\* serviceAction returns.
C2_RetractAfterBot ==
    (pc = "return" /\ botReturned # "no")
        => /\ mainRetract
           /\ (botReturned = "err" => err = "CA chatbot crashed")

\* A Retract that ran alone after a Publish of the same configuration, to
\* its end or to its first error.
RetractAfterPublish ==
    \/ pc = "return" /\ mainRetract /\ hpc \in {"spawned", "waiting"}
    \/ hpc \in {"exit 0", "exit 1"} /\ ~mainRetract

\* C3: after Publish and then Retract with the same configuration, with no
\* store delete failing on a file that is there, no team of the computed team
\* set has an entry, whatever the team list and the chat-team override.
C3_PublishRetractLeavesNone ==
    (RetractAfterPublish /\ ~delFault)
        => \A t \in ComputedTeamSet(conf) : store[t] = NoFile

\* C3 witness: the override is one of two authorized teams, and Retract ran.
C3_Witness ==
    /\ RetractAfterPublish /\ ~delFault
    /\ Len(conf.teams) = 2 /\ conf.chatTeam \in Range(conf.teams)
    /\ pc = "return" /\ PublishedTeams = ComputedTeamSet(conf)

\* C6: with a chat-team override, every entry Publish has written names the
\* override team and the configured channel, and once Publish has returned
\* every authorized team and the override team has been written.
C6_OverrideEntries ==
    conf.chatTeam # "" =>
        /\ \A t \in TeamNames :
             (wrote[t] > 0 /\ store[t] # NoFile)
                => /\ store[t].TeamName = conf.chatTeam
                   /\ store[t].ChannelName = conf.channel
        /\ Published => \A t \in ComputedTeamSet(conf) : wrote[t] > 0

\* C6 witness: Publish returned with an override outside the authorized list,
\* and an authorized team's entry is in the store.
C6_Witness ==
    /\ conf.chatTeam # "" /\ conf.chatTeam \notin Range(conf.teams)
    /\ conf.channel = "general"
    /\ Published /\ pc = "StartBot"
    /\ \E t \in Range(conf.teams) : store[t] # NoFile /\ store[t].TeamName # t

\* C7: without a chat-team override, every entry Publish has written is in
\* the namespace of an authorized team, names that team and has an empty
\* channel; once Publish has returned every authorized team has been written.
C7_OwnEntries ==
    conf.chatTeam = "" =>
        /\ \A t \in TeamNames : wrote[t] > 0 => t \in Range(conf.teams)
        /\ \A t \in TeamNames :
             (wrote[t] > 0 /\ store[t] # NoFile)
                => /\ store[t].TeamName = t
                   /\ store[t].ChannelName = ""
        /\ Published => \A t \in Range(conf.teams) : wrote[t] > 0

\* C7 witness: Publish returned for two authorized teams and no override,
\* with a channel name configured all the same.
C7_Witness ==
    /\ conf.chatTeam = "" /\ conf.channel = "general" /\ Len(conf.teams) = 2
    /\ pc = "StartBot"
    /\ \A t \in Range(conf.teams) : store[t] = ConfigFile(conf, t)

(***************************************************************************)
(* Properties of the wipe-all-configs scanner.                             *)
(***************************************************************************)
\* The goroutines between their send to boundChan and their receive from it.
InSlot ==
    {t \in Range(wteams) :
        tpc[t] \in {"KBFSFileExists", "KBFSDelete", "checkErr", "Lock",
                    "appendRead", "appendWrite", "Unlock", "Done", "release"}}

\* The goroutines with an existence check or a delete still to return.
InFlight == {t \in Range(wteams) : tpc[t] \in {"KBFSFileExists", "KBFSDelete"}}

\* C4: in every reachable state at most BoundedParallelismLimit goroutines
\* hold a slot, so at most that many store operations are in flight, for
\* every number of teams from zero to more than the limit.
C4_AtMostLInFlight ==
    /\ Cardinality(InSlot) <= BoundedParallelismLimit
    /\ Cardinality(InSlot) = boundChan
    /\ Cardinality(InFlight) <= BoundedParallelismLimit

\* C4 witness: more teams than slots, every slot taken by a store operation
\* in flight, and a further goroutine blocked on its send.
C4_Witness ==
    /\ Len(wteams) > BoundedParallelismLimit
    /\ Cardinality(InFlight) = BoundedParallelismLimit
    /\ \E t \in Range(wteams) : tpc[t] = "acquire"

\* C5 (as claimed): when the scanner has reported, every launched goroutine
\* is past its check, delete and append, and the reported list holds, once
\* each, exactly the teams whose file was deleted; the files of all other
\* teams are as they were.
C5_ReportIsDeleted ==
    (wpc = "return" /\ report # <<"none">>)
        => /\ \A t \in Range(wteams) : tpc[t] \in {"release", "end"}
           /\ NoDup(report)
           /\ Range(report) = deleted
           /\ \A t \in Range(wteams) \ Range(report) : kbfs[t] = (t \in stray)

(***************************************************************************)
(* Properties of the backup subcommand.                                    *)
(***************************************************************************)
RECURSIVE StripBlanks(_)
\* The typed line without its leading and trailing blanks.
StripBlanks(in) ==
    IF in = <<>> THEN <<>>
    ELSE IF Head(in) = " " THEN StripBlanks(Tail(in))
    ELSE IF in[Len(in)] = " " THEN StripBlanks(SubSeq(in, 1, Len(in) - 1))
    ELSE in

\* C8 (as claimed): the CA key file is read only in executions in which the
\* typed response is exactly "yes".
C8_KeyReadOnlyOnExactYes ==
    keyReads > 0 => line = Yes

\* C8 (amended): the CA key file is read only in executions in which the
\* typed line, without its leading and trailing blanks, is exactly "yes",
\* and only after the scan succeeded and the confirmation was accepted.
C8_KeyReadOnlyAfterYes ==
    keyReads > 0 =>
        /\ StripBlanks(line) = Yes
        /\ response = Yes /\ berr # "unexpected newline" /\ berr # "expected newline"
        /\ berr # "Did not get confirmation of key export, aborting"
        /\ bpc \in {"export", "return"}
        /\ keyReads = 1

\* C8 witness: the key was read and printed after a confirmation typed with
\* a blank before it.
C8_Witness ==
    /\ keyReads = 1 /\ line = <<" ">> \o Yes
    /\ bout = <<"CA private key">> /\ bexit = "status 0"

(***************************************************************************)
(* Properties of the sign subcommand.                                      *)
(***************************************************************************)
\* The certificates printed to the output.
PrintedCerts == {gout[i].cert : i \in 1..Len(gout)} \ {NoFile}

\* sign ran to its end without an error.
SignSucceeded == gpc = "return" /\ gerr = "nil"

\* C9 (as claimed): after a successful sign with no certificate at the
\* derived path and no overwrite flag, the certificate was printed, nothing
\* was written and the derived path still does not exist.
C9_PrintedNotWritten ==
    (SignSucceeded /\ fs0[certPath] = NoFile /\ ~overwrite)
        => /\ PrintedCerts = {signature}
           /\ certWrites = 0
           /\ fs[certPath] = NoFile

\* C9 (amended): when sign finds no certificate at the derived path (os.Stat
\* reports that it does not exist) and has no overwrite flag, it writes the
\* certificate to the derived path and prints no certificate; when it
\* succeeds the derived path holds the new certificate.
C9_WrittenNotPrinted ==
    (gpc = "return" /\ statErr = "NotExist" /\ ~overwrite)
        => /\ fs0[certPath] = NoFile
           /\ certWrites = 1
           /\ PrintedCerts = {}
           /\ gerr = "nil" => /\ fs[certPath] = signature
                              /\ signature # NoFile
                              /\ Len(gout) = 1

\* C9 witness: sign succeeded with no certificate there and no overwrite
\* flag, and the derived path now holds the certificate.
C9_Witness ==
    /\ SignSucceeded /\ fs0[certPath] = NoFile /\ ~overwrite
    /\ statErr = "NotExist" /\ fs[certPath] = signature /\ gexit = "status 0"

\* C10: the certificate file is written only if no certificate was at the
\* derived path or the overwrite flag is given; with a certificate there and
\* no overwrite flag the file stays as it was and a successful sign prints
\* the new certificate; when reading the public key or signing fails
\* nothing is written and no certificate is printed; no other file changes.
C10_WriteOnlyIfAbsentOrOverwrite ==
    /\ certWrites > 0 => (fs0[certPath] = NoFile \/ overwrite)
    /\ (fs0[certPath] # NoFile /\ ~overwrite)
          => /\ fs = fs0 /\ certWrites = 0
             /\ SignSucceeded => PrintedCerts = {signature}
    /\ gerr \in {"Failed to read file", "Failed to sign key", "Invalid config",
                 "Failed to generate unique key ID"}
          => fs = fs0 /\ certWrites = 0 /\ gout = <<>>
    /\ \A p \in Paths \ {certPath} : fs[p] = fs0[p]

\* C10 witness: a certificate was there, no overwrite flag was given, and
\* the new certificate was printed with the old file in place.
C10_Witness ==
    /\ SignSucceeded /\ fs0[certPath] = OldCert /\ ~overwrite
    /\ fs[certPath] = OldCert /\ PrintedCerts = {signature} /\ signature # OldCert

\* A second witness of C10: the overwrite flag replaced an existing
\* certificate.
C10_WitnessOverwrite ==
    /\ SignSucceeded /\ fs0[certPath] = OldCert /\ overwrite
    /\ fs[certPath] = signature /\ certWrites = 1

(***************************************************************************)
(* Properties of the Shutdown Coordinator and of Publish and Retract.      *)
(***************************************************************************)
\* The Shutdown Coordinator: Armed once signal.Notify has registered the
\* channel, Triggered once the goroutine has received a signal.
Armed == notify /\ hpc \in {"spawned", "waiting"}

Triggered == hpc \in {"delete", "exit 0", "exit 1"}

ExitedByHandler == exit \in {"status 0 by handler", "status 1 by handler"}

\* A step in which a signal is delivered.
SignalStep == signals' = signals + 1

\* C11 (as claimed): a signal that arrives while the coordinator is Armed
\* moves it to Triggered; a signal that arrives while it is Triggered changes
\* nothing; once Triggered the process ends only by the coordinator, with
\* status 0 if and only if every delete of its one Retract succeeded.
C11_ShutdownCoordinator ==
    [][/\ (Running /\ Armed /\ SignalStep) => Triggered'
       /\ (Running /\ Triggered /\ SignalStep)
             => (hpc' = hpc /\ hidx' = hidx /\ exit' = exit /\ store' = store)
       /\ (Running /\ Triggered /\ exit' # "running")
             => /\ ExitedByHandler'
                /\ (exit' = "status 0 by handler")
                      <=> (hidx = Len(deleteTeams(conf)) + 1)]_vars

\* writeClientConfig has returned, with or without an error, after it had
\* resolved the bot's username.
PublishReturned ==
    \/ Published
    \/ pc = "return" /\ err = "Failed to write the client config" /\ idx >= 1

\* C12 (as claimed): when Retract has returned, a delete was issued for
\* every team of the computed team set, also after a delete that failed, and
\* a failure is returned as an error; when Publish has returned, a write was
\* issued for every team of the computed team set.
C12_AllTeamsAttempted ==
    /\ RetractAfterPublish
          => /\ \A t \in ComputedTeamSet(conf) : delTried[t] > 0
             /\ (pc = "return" /\ delFailed) => err # "nil"
    /\ PublishReturned => \A t \in ComputedTeamSet(conf) : writeTried[t] > 0

(***************************************************************************)
(* Further properties of the wipe-all-configs scanner.                     *)
(***************************************************************************)
\* The goroutines whose next step assigns the shared err.
ErrWriters == {t \in Range(wteams) : tpc[t] = "KBFSDelete"}

\* The goroutines inside the append to the shared slice.
Appenders == {t \in Range(wteams) : tpc[t] \in {"appendRead", "appendWrite"}}

\* Every append to teamsFound happens with the mutex held.
AppendsLocked == \A t \in Appenders : teamsFoundMutex = t

\* C13 (as claimed): every write to the result collection happens with the
\* mutex held, and no other shared variable, the err assigned by the delete
\* call in particular, is about to be written by two goroutines at once.
C13_OnlyLockedSharedWrites ==
    /\ AppendsLocked
    /\ Cardinality(ErrWriters) <= 1

\* The scan has begun: KBFSList has returned the teams.
ScanStarted == wpc \in {"launch", "Wait"}

Reported == report # <<"none">>

\* KBFSList failed, so no goroutine was launched and nothing is reported.
ListFailed == wpc = "return" /\ ~Reported

\* C14: under fair scheduling the scan terminates, whatever checks and
\* deletes fail: eventually the process has ended, and unless KBFSList failed
\* it has produced its report after every team's goroutine got a slot, made
\* its check and delete, and signalled completion.
C14_ScanTerminates ==
    <>(/\ wexit # "running"
       /\ \/ ListFailed
          \/ /\ Reported
             /\ \A t \in Range(wteams) : tpc[t] \in {"release", "end"})

\* C14 witness: a report was produced for more teams than slots although a
\* delete had failed and an existence check had failed.
C14_Witness ==
    /\ Reported /\ Len(wteams) > BoundedParallelismLimit
    /\ printed # {}
    /\ \E t \in stray : ~exists[t] /\ tpc[t] \in {"release", "end"}

(***************************************************************************)
(* The published entries while the service is live and after it ended.     *)
(***************************************************************************)
\* The service is live: Publish returned nil, the bot runs, no signal has
\* been received by the signal goroutine.
Live == Running /\ pc = "StartBot" /\ hpc \in {"spawned", "waiting"}

\* The teams whose path holds an entry this process published.
PublishedEntries ==
    {t \in TeamNames : wrote[t] > 0 /\ store[t] = ConfigFile(conf, t)}

ExitedStatus0 == exit \in {"status 0", "status 0 by handler"}

\* C15: while the service is live the teams with a published entry are the
\* computed team set, and once the process has exited with status 0 no
\* published entry is left.
C15_EntriesWhileLive ==
    /\ Live => PublishedEntries = ComputedTeamSet(conf)
    /\ ExitedStatus0 => PublishedEntries = {}

\* C15 witness: live with two authorized teams and a distinct chat team,
\* after a signal that was dropped.
C15_Witness ==
    /\ Live /\ Len(conf.teams) = 2 /\ conf.chatTeam # ""
    /\ conf.chatTeam \notin Range(conf.teams)
    /\ Cardinality(PublishedEntries) = 3 /\ signals > 0

\* A clean exit of either kind after a Publish of two entries.
C15_WitnessExit ==
    /\ ExitedStatus0 /\ Cardinality(PublishedTeams) = 2 /\ PublishedEntries = {}

(***************************************************************************)
(* How often one Publish or Retract call touches a team's path.            *)
(***************************************************************************)
\* C16 (as claimed): the lists Publish and Retract range over name no team
\* twice: one Publish call issues at most one write per team and one Retract
\* call that ran alone issues at most one delete per team.
C16_EachPathOnce ==
    /\ \A t \in TeamNames : writeTried[t] <= 1
    /\ RetractAfterPublish => \A t \in TeamNames : delTried[t] <= 1

(***************************************************************************)
(* Configuration validation before any action.                             *)
(***************************************************************************)
\* service and generate: a store write or delete was issued, or a key made.
ServiceActed ==
    \/ \E t \in TeamNames : writeTried[t] > 0 \/ delTried[t] > 0
    \/ caKey = "new"

\* loadServerConfig has returned a configuration to service or generate.
ServiceValidated ==
    confValid /\ pc \notin {"idle", "loadServerConfig", "generate: loadServerConfig"}

BackupActed == keyReads > 0

BackupValidated == bConfValid /\ bpc \in {"ReadFile", "export", "return"}

SignActed == signature # NoFile

SignValidated == gConfValid /\ gpc \notin {"idle", "ValidateConfig"}

\* wipe-all-configs has called KBFSList.
WipeActed == wpc \notin {"idle", "KBFSList"}

\* The wipe-all-configs branch of mainAction holds no call that validates.
WipeValidated == FALSE

\* C17 (as claimed): in every operation, a store list, exists, write or
\* delete, a CA key read or generation, or a signing has happened only after
\* configuration validation succeeded.
C17_ValidateBeforeActing ==
    /\ ServiceActed => ServiceValidated
    /\ BackupActed => BackupValidated
    /\ SignActed => SignValidated
    /\ WipeActed => WipeValidated

(***************************************************************************)
(* Which operations delete entries.                                        *)
(***************************************************************************)
\* C18 (as claimed): the generate operation never issues a delete on a
\* team's config path, whatever signals reach it.
C18_GenerateNeverDeletes == \A t \in TeamNames : delTried[t] = 0

(***************************************************************************)
(* A Publish that fails part-way.                                          *)
(***************************************************************************)
\* writeClientConfig returned an error from a KBFSWrite.
PublishFailed ==
    /\ err = "Failed to write the client config"
    /\ \E t \in TeamNames : writeTried[t] > wrote[t]

\* C19 (as claimed): when the service operation has exited with the error
\* of a Publish that failed at some team's write, no entry written by that
\* Publish call is left in the store.
C19_FailedPublishLeavesNone ==
    (exit = "status 1" /\ PublishFailed)
        => \A t \in PublishedTeams : store[t] = NoFile

(***************************************************************************)
(* The two callers of deleteClientConfig in the service process.           *)
(***************************************************************************)
\* C20 (as claimed): the Retract of the main path and the Retract of the
\* signal goroutine are never both in progress, and no team's path gets a
\* delete from both.
C20_OneRetractAtATime ==
    /\ ~(Running /\ pc = "delete" /\ hpc = "delete")
    /\ (mainRetract /\ Triggered) => \A t \in TeamNames : delTried[t] <= wrote[t]

====
